---------------------------- MODULE Spec2Model ----------------------------
(***************************************************************************)
(* A model of src/src/main.rs: the triangle rasteriser (draw_triangle over *)
(* get_line_eq), the coordinate transforms and the PPM serialiser.         *)
(*                                                                         *)
(* Numbers.  A screen coordinate (f64) is an integer counting units of     *)
(* 1/Scale; with Scale = WIDTH - 1 every pixel centre and every vertex     *)
(* used here is exact.  The result of a line equation is the real number   *)
(* n / (Scale * sqrt(d)), kept as the record [nan, n, d]; comparisons of   *)
(* such values are exact.  The rounding error of f64 arithmetic (relative  *)
(* 2^-53) is not modelled; NaN and the saturating `as` casts are.          *)
(***************************************************************************)
EXTENDS Integers, Sequences, FiniteSets, TLC

WIDTH == 203
HEIGHT == 203

\* Fixed-point units per 1.0 of a screen coordinate.
Scale == WIDTH - 1

-----------------------------------------------------------------------------
(* f64 values of the form n / (Scale * sqrt(d)), and NaN *)

NaN == [nan |-> TRUE, n |-> 0, d |-> 1]

Surd(n, d) == [nan |-> FALSE, n |-> n, d |-> d]

\* The f64 value of the whole number k.
Whole(k) == Surd(k * Scale, 1)

Abs(i) == IF i < 0 THEN -i ELSE i

\* Limb base of the exact products below.
Limb == 32768

\* n * n * d as four limbs, most significant first (|n|, d < 2^20).
SqTimes(n, d) ==
    LET a  == Abs(n)
        nh == a \div Limb
        nl == a % Limb
        dh == d \div Limb
        dl == d % Limb
        c0 == nl * nl
        c1 == 2 * nh * nl + (c0 \div Limb)
        l0 == c0 % Limb
        l1 == c1 % Limb
        l2 == nh * nh + (c1 \div Limb)
        p0 == l0 * dl
        p1 == l1 * dl + l0 * dh + (p0 \div Limb)
        p2 == l2 * dl + l1 * dh + (p1 \div Limb)
        p3 == l2 * dh + (p2 \div Limb)
    IN  <<p3, p2 % Limb, p1 % Limb, p0 % Limb>>

LimbsLess(p, q) ==
    \/ p[1] < q[1]
    \/ p[1] = q[1] /\ p[2] < q[2]
    \/ p[1] = q[1] /\ p[2] = q[2] /\ p[3] < q[3]
    \/ p[1] = q[1] /\ p[2] = q[2] /\ p[3] = q[3] /\ p[4] < q[4]

\* |v| < |w| for two values that are not NaN: v.n^2 * w.d < w.n^2 * v.d.
MagLess(v, w) == LimbsLess(SqTimes(v.n, w.d), SqTimes(w.n, v.d))

\* The f64 comparison v < w: false when either side is NaN.
FLess(v, w) ==
    /\ ~v.nan
    /\ ~w.nan
    /\ IF v.n < 0
         THEN w.n >= 0 \/ MagLess(w, v)
         ELSE w.n > 0 /\ MagLess(v, w)

\* A minimum by comparison alone: a NaN on the left is returned.
FMinByCompare(v, w) == IF FLess(w, v) THEN w ELSE v

\* f64::min: the other operand when one is NaN.
FMin(v, w) ==
    IF v.nan THEN w
    ELSE IF w.nan THEN v
    ELSE IF FLess(w, v) THEN w ELSE v

\* (k/Scale) / t_norm for t_norm = sqrt(d)/Scale: 0.0 / 0.0 is NaN.
DivNorm(k, d) == IF d = 0 THEN NaN ELSE Surd(k * Scale, d)

\* The f64 product of the fixed-point number m/Scale and v.
FScale(m, v) == IF v.nan THEN NaN ELSE Surd((m * v.n) \div Scale, v.d)

\* The f64 product of the whole number k and v.
FTimes(k, v) == IF v.nan THEN NaN ELSE Surd(k * v.n, v.d)

\* The f64 sum of two values over the same square root.
FAdd(v, w) == IF v.nan \/ w.nan THEN NaN ELSE Surd(v.n + w.n, v.d)

\* `v as u8`: truncates toward zero and saturates; NaN becomes 0.
RECURSIVE AsU8From(_, _)
AsU8From(v, k) ==
    IF k = 255 \/ FLess(v, Whole(k + 1)) THEN k ELSE AsU8From(v, k + 1)

AsU8(v) == IF v.nan THEN 0 ELSE AsU8From(v, 0)

-----------------------------------------------------------------------------
(* Coordinate transforms *)

\* `(num/den) as usize` for den > 0: truncation, saturating at 0.
AsUsize(num, den) == IF num < 0 THEN 0 ELSE num \div den

\* The transform scaled by the size, not by the largest index.
screen_to_image_coord_by_size(sc) ==
    [x |-> AsUsize((sc.x + Scale) * WIDTH, 2 * Scale),
     y |-> AsUsize((sc.y + Scale) * HEIGHT, 2 * Scale)]

screen_to_image_coord(sc) ==
    [x |-> AsUsize((sc.x + Scale) * (WIDTH - 1), 2 * Scale),
     y |-> AsUsize((sc.y + Scale) * (HEIGHT - 1), 2 * Scale)]

\* The inverse scaled by the size, not by the largest index.
image_to_screen_coord_by_size(ic) ==
    [x |-> (ic.x * 2 * Scale) \div WIDTH - Scale,
     y |-> (ic.y * 2 * Scale) \div HEIGHT - Scale]

image_to_screen_coord(ic) ==
    [x |-> (ic.x * 2 * Scale) \div (WIDTH - 1) - Scale,
     y |-> (ic.y * 2 * Scale) \div (HEIGHT - 1) - Scale]

-----------------------------------------------------------------------------
(* Line equations *)

\* The closure get_line_eq returns: the point a and the unit normal n.
get_line_eq(a, b) ==
    LET t  == [x |-> b.x - a.x, y |-> b.y - a.y]
        d  == t.x * t.x + t.y * t.y
    IN  [a |-> a, n |-> [x |-> DivNorm(-t.y, d), y |-> DivNorm(t.x, d)]]

\* Calling the closure on u.
line_eq(eq, u) ==
    FAdd(FScale(u.x - eq.a.x, eq.n.x), FScale(u.y - eq.a.y, eq.n.y))

\* 1.0 / sqrt(HEIGHT * HEIGHT + WIDTH * WIDTH)
pixel_width == Surd(Scale, HEIGHT * HEIGHT + WIDTH * WIDTH)

FNeg(v) == IF v.nan THEN NaN ELSE Surd(-v.n, v.d)

White == <<255, 255, 255>>

Gray(i) == <<i, i, i>>

triangle_sign(eqs, u) ==
    FMin(FMin(line_eq(eqs.ab, u), line_eq(eqs.bc, u)), line_eq(eqs.ca, u))

\* A shader that clears the pixels it does not cover.
ShadePixelClears(eqs, x, y, old) ==
    LET u  == image_to_screen_coord([x |-> x, y |-> y])
        ts == triangle_sign(eqs, u)
    IN  IF FLess(ts, FNeg(pixel_width))
          THEN White
          ELSE IF FLess(ts, pixel_width)
                 THEN Gray((128 + AsU8(FTimes(128, ts))) % 256)
                 ELSE <<0, 0, 0>>

\* The body of draw_triangle's inner loop: the new value of pixel (x, y).
ShadePixel(eqs, x, y, old) ==
    LET u  == image_to_screen_coord([x |-> x, y |-> y])
        ts == triangle_sign(eqs, u)
    IN  IF FLess(ts, FNeg(pixel_width))
          THEN White
          ELSE IF FLess(ts, pixel_width)
                 THEN Gray((128 + AsU8(FTimes(128, ts))) % 256)
                 ELSE old

-----------------------------------------------------------------------------
(* PPM serialisation *)

\* The decimal digits of n as ASCII, as format!("{}", n) writes them.
RECURSIVE Decimal(_)
Decimal(n) ==
    IF n < 10 THEN <<48 + n>> ELSE Decimal(n \div 10) \o <<48 + (n % 10)>>

\* format!("P6\n{} {}\n255\n", WIDTH, HEIGHT).as_bytes()
Header ==
    <<80, 54, 10>> \o Decimal(WIDTH) \o <<32>> \o Decimal(HEIGHT)
        \o <<10, 50, 53, 53, 10>>

\* line.iter().for_each(|pixel| stream.write(pixel)): the bytes the writes of
\* pixels lo .. hi - 1 add to the stream, in that order.
RECURSIVE PixelRun(_, _, _)
PixelRun(line, lo, hi) ==
    IF hi <= lo THEN <<>>
    ELSE IF hi = lo + 1 THEN line[lo]
    ELSE LET mid == (lo + hi) \div 2
         IN  PixelRun(line, lo, mid) \o PixelRun(line, mid, hi)

\* A serialiser that walks a line from its right end.
LineBytesReversed(line) ==
    [i \in 1..(3 * WIDTH) |-> line[WIDTH - 1 - ((i - 1) \div 3)][((i - 1) % 3) + 1]]

\* The bytes one line of the image adds to the stream.
LineBytes(line) == PixelRun(line, 0, WIDTH)

\* image.lines.iter().for_each(..) up to the k-th pixel write: the stream
\* receives the lines in order, the last one cut where the writes stopped.
\* The stream is kept as the sequence of these pieces; its bytes are their
\* concatenation.
PixelBytes(img, k) ==
    [r \in 1..(k \div WIDTH) |-> LineBytes(img[r - 1])]
        \o (IF k % WIDTH = 0
              THEN <<>>
              ELSE <<PixelRun(img[k \div WIDTH], 0, k % WIDTH)>>)

\* An error handler that reports and returns.
handle_io_error_returns(next) == next

\* The closure handle_io_error panics: control never reaches `next`.
handle_io_error(next) == "panic"

-----------------------------------------------------------------------------
(* Inputs *)

\* Fill patterns of the buffer a caller passes to draw_triangle: 0 .. MaxFill.
MaxFill == 1

\* I/O faults are injected at the pixel writes 0 .. MaxFailPixel and at the last.
MaxFailPixel == 120

\* Screen coordinates are sampled up to MaxBeyond units outside [-1, 1].
MaxBeyond == 2

\* Every SampleStride-th unit inside [-1, 1] is sampled.
SampleStride == 50

Pt(px, py) == [x |-> px, y |-> py]

Tri(pa, pb, pc3) == [a |-> pa, b |-> pb, c |-> pc3]

Half == Scale \div 2

\* The triangle main draws: (0,-0.5), (0.5,0), (-0.5,0.5).
MainTriangle == Tri(Pt(0, -Half), Pt(Half, 0), Pt(-Half, Half))

\* main's triangle at twice the size, moved up by 1.0: it crosses the top line.
TallTriangle == Tri(Pt(0, -2 * Scale), Pt(Scale, -Scale), Pt(-Scale, 0))

TriangleInputs ==
    {MainTriangle, TallTriangle,
     Tri(Pt(0, -Half), Pt(0, -Half), Pt(Half, 0)),
     Tri(Pt(Half, 0), Pt(0, -Half), Pt(0, -Half)),
     Tri(Pt(0, -Half), Pt(Half, 0), Pt(0, -Half)),
     Tri(Pt(Half, Half), Pt(Half, Half), Pt(Half, Half))}

ZeroImage == [r \in 0..(HEIGHT - 1) |-> [q \in 0..(WIDTH - 1) |-> <<0, 0, 0>>]]

\* Buffer contents a caller may pass; fill 0 is the zeroed buffer.
InitialImage(f) ==
    [r \in 0..(HEIGHT - 1) |-> [q \in 0..(WIDTH - 1) |->
        <<(f * q) % 256, (f * r) % 256, (f * (q + r)) % 256>>]]

CoordSamples ==
    {s \in (-(Scale + MaxBeyond))..(Scale + MaxBeyond) :
        s % SampleStride = 0 \/ Abs(s) >= Scale - 1 \/ Abs(s) <= 1}

FailPixels == {k \in 0..(WIDTH * HEIGHT - 1) :
                  k <= MaxFailPixel \/ k = WIDTH * HEIGHT - 1}

-----------------------------------------------------------------------------
VARIABLES pc, tri, fill, eqs, y, image, stream, io, stdout, sc, ic, back

vars == <<pc, tri, fill, eqs, y, image, stream, io, stdout, sc, ic, back>>

NoEqs == [ab |-> NaN, bc |-> NaN, ca |-> NaN]

NoIo == [created |-> FALSE, writes |-> 0, flushes |-> 0, failed |-> FALSE]

get_line_eqs(t) ==
    [ab |-> get_line_eq(t.a, t.b),
     bc |-> get_line_eq(t.b, t.c),
     ca |-> get_line_eq(t.c, t.a)]

\* One iteration of `for y in 0..HEIGHT`: the inner loop over x.
DrawLine(e, r, line) ==
    [x \in 0..(WIDTH - 1) |-> ShadePixel(e, x, r, line[x])]

Idle ==
    /\ eqs = NoEqs
    /\ y = 0
    /\ stream = <<>>
    /\ io = NoIo
    /\ stdout = <<>>

\* main: the zeroed buffer and the triangle of line 30.
Init ==
    /\ pc = "main"
    /\ tri = MainTriangle
    /\ fill = 0
    /\ image = ZeroImage
    /\ sc = Pt(0, 0)
    /\ ic = Pt(0, 0)
    /\ back = Pt(0, 0)
    /\ Idle

\* draw_triangle, the whole call.
DrawTriangle ==
    /\ pc = "main"
    /\ eqs' = get_line_eqs(tri)
    /\ image' = [r \in 0..(HEIGHT - 1) |-> DrawLine(eqs', r, image[r])]
    /\ y' = HEIGHT
    /\ pc' = "drawn"
    /\ UNCHANGED <<tri, fill, stream, io, stdout, sc, ic, back>>

\* File::create succeeds; "Writing image to file" is printed.
CreateOk ==
    /\ pc = "drawn"
    /\ io' = [io EXCEPT !.created = TRUE]
    /\ stdout' = Append(stdout, "Writing image to file output.")
    /\ pc' = "header"
    /\ UNCHANGED <<tri, fill, eqs, y, image, stream, sc, ic, back>>

\* File::create fails: panic.
CreateErr ==
    /\ pc = "drawn"
    /\ io' = [io EXCEPT !.failed = TRUE]
    /\ pc' = "panic"
    /\ UNCHANGED <<tri, fill, eqs, y, image, stream, stdout, sc, ic, back>>

HeaderOk ==
    /\ pc = "header"
    /\ stream' = Append(stream, Header)
    /\ io' = [io EXCEPT !.writes = @ + 1]
    /\ pc' = "pixels"
    /\ UNCHANGED <<tri, fill, eqs, y, image, stdout, sc, ic, back>>

HeaderErr ==
    /\ pc = "header"
    /\ io' = [io EXCEPT !.writes = @ + 1, !.failed = TRUE]
    /\ pc' = handle_io_error("pixels")
    /\ UNCHANGED <<tri, fill, eqs, y, image, stream, stdout, sc, ic, back>>

\* Every pixel write succeeds.
PixelsOk ==
    /\ pc = "pixels"
    /\ stream' = stream \o PixelBytes(image, WIDTH * HEIGHT)
    /\ io' = [io EXCEPT !.writes = @ + WIDTH * HEIGHT]
    /\ pc' = "flush"
    /\ UNCHANGED <<tri, fill, eqs, y, image, stdout, sc, ic, back>>

\* The write of pixel k fails, after k pixel writes that succeeded.
PixelsErr ==
    /\ pc = "pixels"
    /\ \E k \in FailPixels :
         /\ stream' = stream \o PixelBytes(image, k)
         /\ io' = [io EXCEPT !.writes = @ + k + 1, !.failed = TRUE]
    /\ pc' = handle_io_error("flush")
    /\ UNCHANGED <<tri, fill, eqs, y, image, stdout, sc, ic, back>>

FlushOk ==
    /\ pc = "flush"
    /\ io' = [io EXCEPT !.flushes = @ + 1]
    /\ stdout' = Append(stdout, "Successfully wrote to output.")
    /\ pc' = "done"
    /\ UNCHANGED <<tri, fill, eqs, y, image, stream, sc, ic, back>>

FlushErr ==
    /\ pc = "flush"
    /\ io' = [io EXCEPT !.flushes = @ + 1, !.failed = TRUE]
    /\ pc' = handle_io_error("done")
    /\ UNCHANGED <<tri, fill, eqs, y, image, stream, stdout, sc, ic, back>>

Next ==
    \/ DrawTriangle
    \/ CreateOk \/ CreateErr
    \/ HeaderOk \/ HeaderErr
    \/ PixelsOk \/ PixelsErr
    \/ FlushOk \/ FlushErr

Spec == Init /\ [][Next]_vars

-----------------------------------------------------------------------------
(* draw_triangle on any triangle and buffer, one line of pixels per step *)

InitTri ==
    /\ pc = "call"
    /\ tri \in TriangleInputs
    /\ fill \in 0..MaxFill
    /\ image = InitialImage(fill)
    /\ sc = Pt(0, 0)
    /\ ic = Pt(0, 0)
    /\ back = Pt(0, 0)
    /\ Idle

\* Lines 112-115: the three closures.
DrawTriangleEnter ==
    /\ pc = "call"
    /\ eqs' = get_line_eqs(tri)
    /\ y' = 0
    /\ pc' = "draw"
    /\ UNCHANGED <<tri, fill, image, stream, io, stdout, sc, ic, back>>

DrawRow ==
    /\ pc = "draw"
    /\ y < HEIGHT
    /\ image' = [image EXCEPT ![y] = DrawLine(eqs, y, image[y])]
    /\ y' = y + 1
    /\ UNCHANGED <<pc, tri, fill, eqs, stream, io, stdout, sc, ic, back>>

DrawTriangleReturn ==
    /\ pc = "draw"
    /\ y = HEIGHT
    /\ pc' = "drawn"
    /\ UNCHANGED <<tri, fill, eqs, y, image, stream, io, stdout, sc, ic, back>>

NextTri == DrawTriangleEnter \/ DrawRow \/ DrawTriangleReturn

SpecTri == InitTri /\ [][NextTri]_vars

-----------------------------------------------------------------------------
(* The coordinate transforms and draw_point on sampled screen coordinates *)

InitCoord ==
    /\ pc = "coord"
    /\ tri = MainTriangle
    /\ fill = 0
    /\ image = ZeroImage
    /\ sc \in {Pt(sx, sy) : sx \in CoordSamples, sy \in CoordSamples}
    /\ ic = Pt(0, 0)
    /\ back = Pt(0, 0)
    /\ Idle

ScreenToImage ==
    /\ pc = "coord"
    /\ ic' = screen_to_image_coord(sc)
    /\ pc' = "pixel"
    /\ UNCHANGED <<tri, fill, eqs, y, image, stream, io, stdout, sc, back>>

ImageToScreen ==
    /\ pc = "pixel"
    /\ back' = image_to_screen_coord(ic)
    /\ pc' = "back"
    /\ UNCHANGED <<tri, fill, eqs, y, image, stream, io, stdout, sc, ic>>

\* draw_point: indexing outside the buffer panics.
DrawPoint ==
    /\ pc = "coord"
    /\ LET image_coord == screen_to_image_coord(sc)
       IN  /\ ic' = image_coord
           /\ IF image_coord.y < HEIGHT /\ image_coord.x < WIDTH
                THEN /\ image' = [image EXCEPT ![image_coord.y][image_coord.x] = White]
                     /\ pc' = "point"
                ELSE /\ image' = image
                     /\ pc' = "panic"
    /\ UNCHANGED <<tri, fill, eqs, y, stream, io, stdout, sc, back>>

NextCoord == ScreenToImage \/ ImageToScreen \/ DrawPoint

SpecCoord == InitCoord /\ [][NextCoord]_vars

-----------------------------------------------------------------------------
(* Properties of the pipeline of main (Spec) *)

Background == <<0, 0, 0>>

\* The coverage value draw_triangle computes for pixel (q, r).
Coverage(q, r) == triangle_sign(eqs, image_to_screen_coord(Pt(q, r)))

InBand(v) == ~FLess(v, FNeg(pixel_width)) /\ FLess(v, pixel_width)

\* C1: once main has drawn its triangle, the pixel nearest the centroid (0,0)
\* is not background, and the four corner pixels are still background.
C1_CentroidDrawnCornersBackground ==
    pc # "main" =>
        LET c == screen_to_image_coord(Pt(0, 0))
        IN  /\ image[c.y][c.x] # Background
            /\ \A r \in {0, HEIGHT - 1} : \A q \in {0, WIDTH - 1} :
                   image[r][q] = Background

\* C3: a pixel whose coverage is below -pixel_width is white; a pixel in the
\* band is a gray of valid 8-bit channels, and two band pixels whose coverages
\* lie in opposite halves of the band (below -pixel_width/2, above
\* +pixel_width/2) receive different grays.
C3_BandInterpolates ==
    pc # "main" =>
        LET band == {p \in (0..(HEIGHT - 1)) \X (0..(WIDTH - 1)) :
                        InBand(Coverage(p[2], p[1]))}
            low  == {p \in band :
                        FLess(FTimes(2, Coverage(p[2], p[1])), FNeg(pixel_width))}
            high == {p \in band :
                        FLess(pixel_width, FTimes(2, Coverage(p[2], p[1])))}
        IN  /\ \A r \in 0..(HEIGHT - 1) : \A q \in 0..(WIDTH - 1) :
                   FLess(Coverage(q, r), FNeg(pixel_width)) => image[r][q] = White
            /\ \A p \in band : image[p[1]][p[2]] \in {Gray(i) : i \in 0..255}
            /\ \A p \in low : \A q \in high :
                   image[p[1]][p[2]] # image[q[1]][q[2]]

\* "P6\n203 203\n255\n"
HeaderText == <<80, 54, 10, 50, 48, 51, 32, 50, 48, 51, 10, 50, 53, 53, 10>>

\* The number of bytes in the pieces lo .. hi - 1 of the stream.
RECURSIVE PiecesLen(_, _)
PiecesLen(lo, hi) ==
    IF hi <= lo THEN 0
    ELSE IF hi = lo + 1 THEN Len(stream[lo])
    ELSE LET mid == (lo + hi) \div 2
         IN  PiecesLen(lo, mid) + PiecesLen(mid, hi)

\* The number of bytes the stream has received.
StreamLen == PiecesLen(1, Len(stream) + 1)

\* The byte at offset o (from 0) of a stream whose pieces after the first
\* are whole lines.
ByteAt(o) ==
    IF o < Len(stream[1])
      THEN stream[1][o + 1]
      ELSE LET k == o - Len(stream[1])
           IN  stream[2 + (k \div (3 * WIDTH))][(k % (3 * WIDTH)) + 1]

\* C4: whatever the stream has received starts with the header; once flushed,
\* the stream is the header followed immediately by the channels R, G, B of
\* every pixel in row-major order, WIDTH*HEIGHT*3 bytes and nothing else; the
\* flush is the last call, and main returns only after it.
C4_PpmBytes ==
    /\ stream # <<>> => stream[1] = HeaderText
    /\ io.flushes > 0 =>
           /\ StreamLen = Len(HeaderText) + WIDTH * HEIGHT * 3
           /\ \A i \in 2..Len(stream) : Len(stream[i]) = 3 * WIDTH
           /\ \A r \in 0..(HEIGHT - 1) : \A q \in 0..(WIDTH - 1) :
                  \A ch \in 0..2 :
                      ByteAt(Len(HeaderText) + 3 * (r * WIDTH + q) + ch)
                          = image[r][q][ch + 1]
    /\ pc = "done" => io.flushes = 1

C4_Witness ==
    /\ pc = "done"
    /\ StreamLen = 15 + 203 * 203 * 3
    /\ ByteAt(15) = 255
    /\ ByteAt(15 + 3 * (101 * 203 + 101)) = 0

Confirmation == "Successfully wrote to output."

InStdout(line) == \E i \in 1..Len(stdout) : stdout[i] = line

\* C5: after a failed creation, write or flush nothing more is written,
\* flushed or printed and the routine has panicked; the confirmation is
\* printed only when the creation, the header write, every pixel write and
\* the flush all succeeded.
C5_FailureAborts ==
    /\ [](io.failed => pc = "panic" /\ ~InStdout(Confirmation))
    /\ [][io.failed => UNCHANGED <<stream, io, stdout>>]_vars
    /\ [](InStdout(Confirmation) =>
             /\ ~io.failed
             /\ io.created
             /\ io.writes = 1 + WIDTH * HEIGHT
             /\ io.flushes = 1)

C5_Witness ==
    /\ io.failed
    /\ pc = "panic"
    /\ io.writes = 1 + 3
    /\ StreamLen = 15 + 2 * 3

-----------------------------------------------------------------------------
(* Properties of draw_triangle on any triangle and buffer (SpecTri) *)

\* Twice the signed area of (a, b, u).
Cross(a, b, u) == (b.x - a.x) * (u.y - a.y) - (b.y - a.y) * (u.x - a.x)

NonDegenerate(t) == Cross(t.a, t.b, t.c) # 0

Sides(t, u) == <<Cross(t.a, t.b, u), Cross(t.b, t.c, u), Cross(t.c, t.a, u)>>

\* u is strictly inside the triangle, whatever its winding.
Inside(t, u) ==
    \/ \A i \in 1..3 : Sides(t, u)[i] > 0
    \/ \A i \in 1..3 : Sides(t, u)[i] < 0

\* u is neither inside the triangle nor on its boundary.
Outside(t, u) ==
    /\ \E i \in 1..3 : Sides(t, u)[i] > 0
    /\ \E i \in 1..3 : Sides(t, u)[i] < 0

FAbs(v) == IF v.nan THEN NaN ELSE Surd(Abs(v.n), v.d)

Zero == Whole(0)

\* u is farther than the band from each of the three edge lines of e.
FarFromEdges(e, u) ==
    /\ FLess(pixel_width, FAbs(line_eq(e.ab, u)))
    /\ FLess(pixel_width, FAbs(line_eq(e.bc, u)))
    /\ FLess(pixel_width, FAbs(line_eq(e.ca, u)))

\* C2: for a non-degenerate triangle the coverage value of a pixel is
\* negative when its point is inside the triangle, farther than the band
\* from every edge, positive when the point is outside the triangle, and
\* zero only on the boundary.
C2_CoverageSign ==
    (pc = "draw" /\ y < HEIGHT /\ NonDegenerate(tri)) =>
        \A q \in 0..(WIDTH - 1) :
            LET u == image_to_screen_coord(Pt(q, y))
                v == Coverage(q, y)
            IN  /\ (Inside(tri, u) /\ FarFromEdges(eqs, u)) => FLess(v, Zero)
                /\ Outside(tri, u) => FLess(Zero, v)
                /\ v.n = 0 => (~Inside(tri, u) /\ ~Outside(tri, u))

Written(px) == px # Background

\* C8: on a zeroed buffer, the edge values of the swapped order (A, C, B) are
\* the negated edge values of (A, B, C); every pixel farther than the band
\* from all three edge lines is written under exactly one of the two orders;
\* and the two finished images differ.
C8_WindingInverts ==
    (fill = 0 /\ NonDegenerate(tri)) =>
        LET swapped == get_line_eqs(Tri(tri.a, tri.c, tri.b))
        IN  /\ (pc = "draw" /\ y > 0) =>
                \A q \in 0..(WIDTH - 1) :
                    LET u == image_to_screen_coord(Pt(q, y - 1))
                    IN  /\ line_eq(swapped.ca, u) = FNeg(line_eq(eqs.ab, u))
                        /\ line_eq(swapped.bc, u) = FNeg(line_eq(eqs.bc, u))
                        /\ line_eq(swapped.ab, u) = FNeg(line_eq(eqs.ca, u))
                        /\ FarFromEdges(eqs, u) =>
                               (Written(image[y - 1][q])
                                   # FLess(triangle_sign(swapped, u), pixel_width))
            /\ pc = "drawn" =>
                \E r \in 0..(HEIGHT - 1) :
                    image[r] # DrawLine(swapped, r, ZeroImage[r])

Grays == {Gray(i) : i \in 0..255}

\* C9: each step of the loop draws line y and moves to line y + 1, so the
\* lines are visited once each, in order; y never passes HEIGHT, where the
\* call returns, so the loop ends after HEIGHT steps; drawing line y changes
\* no other line; in line y a pixel whose
\* coverage is not below +pixel_width keeps its value, and a covered pixel
\* becomes white or a gray fixed by its own coverage.
C9_LoopFrame ==
    /\ [](pc = "draw" => y \in 0..HEIGHT)
    /\ [](pc = "drawn" => y = HEIGHT)
    /\ [][(pc = "draw" /\ y < HEIGHT) =>
            /\ pc' = "draw"
            /\ y' = y + 1
            /\ \A r \in 0..(HEIGHT - 1) : r # y => image'[r] = image[r]
            /\ \A q \in 0..(WIDTH - 1) :
                   LET v == Coverage(q, y)
                   IN  IF FLess(v, FNeg(pixel_width)) THEN image'[y][q] = White
                       ELSE IF FLess(v, pixel_width) THEN image'[y][q] \in Grays
                       ELSE image'[y][q] = image[y][q]]_vars

C9_Witness ==
    /\ pc = "draw"
    /\ y = 1
    /\ fill = 1
    /\ tri = TallTriangle
    /\ image[0][0] = White
    /\ image[0][101] = <<101, 0, 101>>

Coincide(t) == t.a = t.b \/ t.b = t.c \/ t.c = t.a

\* The values at u of the edges of t whose end points differ.
FiniteEdgeValues(t, u) ==
    {line_eq(get_line_eq(e[1], e[2]), u) :
        e \in {d \in {<<t.a, t.b>>, <<t.b, t.c>>, <<t.c, t.a>>} : d[1] # d[2]}}

\* What a pixel becomes when only the finite edge values constrain it.
FiniteResult(t, u, old) ==
    LET vals == FiniteEdgeValues(t, u)
    IN  IF vals = {} THEN old
        ELSE LET m == CHOOSE v \in vals : \A w \in vals : ~FLess(w, v)
             IN  IF FLess(m, FNeg(pixel_width)) THEN White
                 ELSE IF FLess(m, pixel_width)
                        THEN Gray(128 + AsU8(FTimes(128, m)))
                        ELSE old

\* C10: when vertices coincide, drawing a line gives every pixel the result
\* of the minimum over the finite edge values alone, whichever edge is the
\* degenerate one, and changes nothing when all three vertices coincide;
\* every stored channel is a byte.
C10_DegenerateEdge ==
    [][(pc = "draw" /\ y < HEIGHT) =>
          \A q \in 0..(WIDTH - 1) :
              /\ \A ch \in 1..3 : image'[y][q][ch] \in 0..255
              /\ Coincide(tri) =>
                     image'[y][q] =
                         FiniteResult(tri, image_to_screen_coord(Pt(q, y)),
                                      image[y][q])]_vars

C10_Witness ==
    /\ pc = "draw"
    /\ y = 1
    /\ tri.a = tri.b
    /\ tri.b # tri.c
    /\ image[0][0] = White

-----------------------------------------------------------------------------
(* Properties of the coordinate transforms (SpecCoord) *)

InDomain(p) == p.x \in (-Scale)..Scale /\ p.y \in (-Scale)..Scale

\* C6: (1,1) maps to (WIDTH-1, HEIGHT-1), (-1,-1) to (0,0), (0,0) to
\* ((WIDTH-1)/2, (HEIGHT-1)/2); every point of [-1,1] x [-1,1] maps to a pixel
\* of the buffer, so draw_point's indexing does not panic on it.
C6_ScreenToImage ==
    /\ pc \in {"pixel", "back", "point", "panic"} =>
           /\ sc = Pt(Scale, Scale) => ic = Pt(WIDTH - 1, HEIGHT - 1)
           /\ sc = Pt(-Scale, -Scale) => ic = Pt(0, 0)
           /\ sc = Pt(0, 0) => ic = Pt((WIDTH - 1) \div 2, (HEIGHT - 1) \div 2)
           /\ InDomain(sc) => (ic.x \in 0..(WIDTH - 1) /\ ic.y \in 0..(HEIGHT - 1))
    /\ pc = "panic" => ~InDomain(sc)
    /\ pc = "point" => image[ic.y][ic.x] = White

C6_Witness ==
    /\ pc = "point"
    /\ sc = Pt(Scale, Scale)
    /\ image[HEIGHT - 1][WIDTH - 1] = White

Corners == {Pt(sx, sy) : sx \in {-Scale, Scale}, sy \in {-Scale, Scale}}

\* C7: the round trip through the pixel grid returns each of the four
\* corners; pixel (0,0) maps to (-1,-1) and pixel (WIDTH-1, HEIGHT-1) to (1,1).
C7_CornerRoundTrip ==
    pc = "back" =>
        /\ sc \in Corners => back = sc
        /\ ic = Pt(0, 0) => back = Pt(-Scale, -Scale)
        /\ ic = Pt(WIDTH - 1, HEIGHT - 1) => back = Pt(Scale, Scale)

C7_Witness ==
    /\ pc = "back"
    /\ sc = Pt(-Scale, Scale)
    /\ ic = Pt(0, HEIGHT - 1)
    /\ back = sc

=============================================================================
